---- MODULE Spec2Model ----
(***************************************************************************)
(* datacat Python client: the Async Delivery Queue (class AsyncSession of  *)
(* python/datacat.py).  One application thread calls the non-blocking      *)
(* logging API, flush, get_stats and shutdown; the background sender       *)
(* thread drains the queue into the synchronous session facade.            *)
(*                                                                         *)
(* The variables marked "history" record what has happened (the calls the  *)
(* facade received, the items accepted); the program does not hold them.   *)
(*                                                                         *)
(* Time is counted in ticks of one second: `timer` is the time left of the *)
(* bounded wait the application thread is in (flush's deadline, or the     *)
(* join of shutdown), and Tick lets one second pass.                        *)
(*                                                                         *)
(* The Liveness Monitor (class HeartbeatMonitor, with the Session methods   *)
(* that create and start it) is the second part of the module.  Its         *)
(* specification is MonSpec: the application thread calls                  *)
(* start_heartbeat_monitor, start, heartbeat, stop and is_running, and      *)
(* every start() that finds the monitor stopped creates a checker thread    *)
(* running _monitor_loop.  There the clock advances in MonTick, one second  *)
(* at a time; a thread that is ready to run takes its step before the       *)
(* clock advances, and only the network calls (the hang and recovery        *)
(* events, the heartbeat request) and an idle application let time pass.    *)
(* No session holds a monitor in Spec, and the session is idle in MonSpec.  *)
(* MonSpec also has Session.end and the logging calls of a Session, which  *)
(* the application makes on the handle that owns the monitor.              *)
(*                                                                         *)
(* The Process Supervisor (class DaemonManager) is the third part, with    *)
(* the specification SupSpec: two supervisors in one working directory,    *)
(* each used by a thread of its own (start, stop), their subprocesses,     *)
(* which may exit at any time, and the directory of configuration files.   *)
(* is_running() may be called from any thread at any time.  The            *)
(* supervisors are left unstarted in Spec and MonSpec.                     *)
(*                                                                         *)
(* RaceSpec has several application threads inside _queue_item at the same *)
(* time, under the drop policy, with `self.dropped_count += 1` as the read *)
(* and the write it is made of.  TimerSpec has the Timer context manager:  *)
(* the application runs timed scopes one after another, each protected     *)
(* block completing or raising, and __exit__ calling log_timer.            *)
(***************************************************************************)
EXTENDS Integers, Sequences, FiniteSets, TLC

\* ---------------------------------------------------------------- bounds
MaxCalls == 2          \* enqueue calls the application makes
MaxQueue == 2          \* largest queue_size a session is built with
MaxTimeout == 1        \* largest timeout (seconds) passed to flush / shutdown
MaxShutdowns == 2      \* shutdown calls the application makes
MaxStarts == 2         \* checker threads the start() calls create
MaxHbTimeout == 2      \* largest timeout (seconds) a monitor is built with
MaxInterval == 1       \* largest check_interval (seconds) a monitor is built with
MaxSupStarts == 2      \* start() calls made on the supervisors
MaxEnqueuers == 2      \* application threads that enqueue concurrently
MaxRaceCalls == 3      \* enqueue calls those threads make between them
MaxScopes == 2         \* timed scopes the application runs, one after another
MaxBlockTime == 2      \* longest time (seconds) a timed block takes

\* ------------------------------------------------------ program constants
JoinTimeout == 1       \* self.thread.join(timeout=1.0)
DefaultTimeout == 2    \* def shutdown(self, timeout=2.0), used by end()
JoinSlack == 1         \* stop: self._thread.join(timeout=self.check_interval + 1)

ItemTypes == {"event", "metric", "state", "exception"}

VARIABLES
    drop_on_full,      \* AsyncSession.drop_on_full
    queue_size,        \* maxsize of AsyncSession.queue
    queue,             \* AsyncSession.queue, head first
    running,           \* AsyncSession.running
    sent_count,        \* AsyncSession.sent_count
    dropped_count,     \* AsyncSession.dropped_count
    w_pc,              \* background sender: "check" | "get" | "call" | "done"
    w_item,            \* the sender's local `item` while its facade call runs
    a_pc,              \* application thread: "idle" | "put_wait" | "flush" |
                       \*   "sd_stop" | "sd_alive" | "sd_join" | "sd_end"
    a_item,            \* the item a blocked queue.put() is holding
    in_shutdown,       \* the running flush was called by shutdown
    timer,             \* seconds left of the application thread's bounded wait
    stats,             \* the dict the last get_stats() returned
    nenq,              \* history: enqueue calls made so far
    accepted,          \* history: the numbers of the items placed on the queue, in order
    calls,             \* history: the calls made to the facade, in order:
                       \*   [op |-> "deliver", n |-> item number] or [op |-> "end"]
    failed,            \* history: facade logging calls that raised
    last,              \* history: how the application's last call ended
                       \*   ("pending" while a call is still running)
    flush_obs,         \* history: what the last flush saw ("none" after an enqueue)
    sd_steps,          \* history: the steps of the current/last shutdown call
    sd_calls           \* history: shutdown calls made so far

\* The checker threads, numbered in the order start() creates them.
Threads == 1..MaxStarts

VARIABLES
    hb_monitor,        \* Session._heartbeat_monitor: 0 is None, else the
                       \*   number of the HeartbeatMonitor instance
    use_daemon,        \* client.use_daemon
    hb_timeout,        \* HeartbeatMonitor.timeout
    check_interval,    \* HeartbeatMonitor.check_interval
    hb_running,        \* HeartbeatMonitor._running
    since_heartbeat,   \* time.time() - self._last_heartbeat, in seconds
                       \*   (not counted beyond timeout + check_interval + 1)
    hung_logged,       \* HeartbeatMonitor._hung_logged
    hb_thread,         \* HeartbeatMonitor._thread: 0 is None, else the
                       \*   number of the thread the last start() created
    c_pc,              \* each checker thread's position in _monitor_loop:
                       \*   "none" (not created) | "test" (while self._running)
                       \*   | "sleep" | "lock" (at `with self._lock`) | "emit"
                       \*   (inside log_event, holding the lock) | "done"
    c_sleep,           \* seconds left of each checker's time.sleep
    m_pc,              \* application thread, in the monitor's methods: "idle"
                       \*   | "hb_lock" (heartbeat at `with self._lock`)
                       \*   | "hb_req" (in the heartbeat request, lock held)
                       \*   | "hb_rec" (in the recovery log_event, lock held)
                       \*   | "join" (stop, in self._thread.join)
                       \*   | "end_req" (Session.end, in the end-session request)
    m_timer,           \* seconds left of stop's bounded join
    m_last,            \* history: how the last call of a monitor method
                       \*   ended ("pending" while one is still running)
    hangs,             \* history: hang events the checkers have begun to log
                       \*   since the last start() or heartbeat (2: two or more)
    beat,              \* history: a heartbeat was recorded since the last start()
    late,              \* history: since the last start(), the monitor has been
                       \*   running timeout seconds or more past its last
                       \*   recorded heartbeat (or past the start)
    in_end,            \* the running stop() was called by Session.end
    ended,             \* history: Session.end has been performed; after it the
                       \*   application goes on with heartbeat and logging calls only
    end_steps          \* history: the steps of the current/last Session.end

monVars == <<hb_monitor, use_daemon, hb_timeout, check_interval, hb_running,
             since_heartbeat, hung_logged, hb_thread, c_pc, c_sleep, m_pc,
             m_timer, m_last, hangs, beat, late, in_end, ended, end_steps>>

\* The supervisors (DaemonManager instances) that share a working directory.
Sups == {1, 2}

VARIABLES
    d_cfg,             \* the daemon_port each DaemonManager was constructed with
    daemon_port,       \* DaemonManager.daemon_port
    config_path,       \* DaemonManager.config_path (NoPath is None)
    d_started,         \* DaemonManager._started
    process,           \* DaemonManager.process and the state of that subprocess:
                       \*   "none" (None) | "alive" | "exited" | "killed"
    proc_out,          \* what the subprocess wrote to stderr before it exited
    proc_env,          \* DATACAT_CONFIG in the environment of the last Popen
    d_pc,              \* the thread using the supervisor: "idle" | "write" (start,
                       \*   at open(config_path, "w")) | "spawn" (at Popen) |
                       \*   "grace" (in time.sleep(1)) | "wait" (stop, in
                       \*   process.wait(timeout=5))
    d_last,            \* history: how the last start() or stop() ended
                       \*   ("pending" while one is still running)
    d_err,             \* history: the message of the exception the last
                       \*   start() raised
    d_seen,            \* history: the supervisor and the result of the
                       \*   is_running() call just made (NoSeen after any
                       \*   other step of a supervisor)
    d_calls,           \* history: start() calls made so far, on any supervisor
    spawns,            \* history: Popen calls made so far
    stop_steps,        \* history: what the current/last stop() did to the
                       \*   subprocess, in order
    files              \* the directory tmp/daemon_configs: the files in it,
                       \*   each with its path, its writer and its
                       \*   "daemon_port" entry

supVars == <<d_cfg, daemon_port, config_path, d_started, process, proc_out,
             proc_env, d_pc, d_last, d_err, d_seen, d_calls, spawns,
             stop_steps, files>>

\* The application threads that call the logging API at the same time.
Enqueuers == 1..MaxEnqueuers

VARIABLES
    e_pc,              \* each of those threads' position in _queue_item: "idle"
                       \*   | "load" (queue.Full caught; before the read of
                       \*   self.dropped_count) | "store" (before the write)
    e_seen             \* the self.dropped_count each thread has read

enqVars == <<e_pc, e_seen>>

VARIABLES
    tm,                \* the Timer object: unit, count, start_time (-1 is None)
    tm_pc,             \* the with statement: "out" | "block" | "exit"
    tm_block,          \* how the protected block ended: "none" (it has not)
                       \*   | "completed" | "raised"
    tm_now,            \* time.time(), in seconds
    tm_log,            \* history: the log_timer calls of the current/last
                       \*   scope, each with its arguments and its outcome
    tm_seen,           \* history: how the last with statement ended for the
                       \*   caller: "none" | "returned" | "block_error" |
                       \*   "metric_error"
    tm_scopes          \* history: with statements entered so far

scopeVars == <<tm, tm_pc, tm_block, tm_now, tm_log, tm_seen, tm_scopes>>

vars == <<drop_on_full, queue_size, queue, running, sent_count, dropped_count,
          w_pc, w_item, a_pc, a_item, in_shutdown, timer, stats,
          nenq, accepted, calls, failed, last, flush_obs, sd_steps, sd_calls,
          monVars, supVars, enqVars, scopeVars>>

NoItem == [type |-> "none", data |-> 0]
NoStats == [sent |-> -1, dropped |-> -1, queued |-> -1]

\* ------------------------------------------------------------- helpers

\* A Timer before its construction.
NoTimer == [unit |-> "seconds", count |-> 0, start_time |-> -1]

\* Mutant: the if/elif chain has no branch for an exception item.
FacadeOp_NoException(item_type) ==
    CASE item_type = "event" -> "log_event"
      [] item_type = "metric" -> "log_metric"
      [] item_type = "state" -> "update_state"
      [] OTHER -> "none"

\* The facade method _background_sender picks for an item type (if/elif chain).
FacadeOp(item_type) ==
    CASE item_type = "event" -> "log_event"
      [] item_type = "metric" -> "log_metric"
      [] item_type = "state" -> "update_state"
      [] item_type = "exception" -> "log_exception"
      [] OTHER -> "none"

\* Mutant: the new item is put at the head.
QueuePut_Front(q, item) == <<item>> \o q

\* queue.Queue.put: the item goes to the tail.
QueuePut(q, item) == Append(q, item)

\* queue.Queue.get: the item at the head.
QueueGetItem(q) == Head(q)

\* Mutant: the item read stays on the queue.
QueueGetRest_Keep(q) == q

\* queue.Queue.get: what is left once the head is taken.
QueueGetRest(q) == Tail(q)

\* Mutant: queue.Full is not caught.
QueueItemOutcome_NoCatch(drop, qlen, maxsize) ==
    IF qlen < maxsize THEN "put"
    ELSE IF drop THEN "raise"
    ELSE "wait"

\* Mutant: put_nowait whatever the policy.
QueueItemOutcome_AlwaysDrop(drop, qlen, maxsize) ==
    IF qlen < maxsize THEN "put" ELSE "drop"

\* _queue_item on a queue holding qlen of maxsize items:
\*   "put"  - the item is placed now
\*   "drop" - put_nowait raised queue.Full, which is caught and counted
\*   "wait" - put() blocks until there is space
QueueItemOutcome(drop, qlen, maxsize) ==
    IF qlen < maxsize THEN "put"
    ELSE IF drop THEN "drop"
    ELSE "wait"

\* Mutant: the drop is not counted.
DroppedAfter_Forgot(dropped) == dropped

\* except queue.Full: self.dropped_count += 1
DroppedAfter(dropped) == dropped + 1

\* Mutant: a delivery is never counted.
SentAfter_Never(sent, ok) == sent

\* The sent counter after a facade call that returned or raised.
SentAfter(sent, ok) == IF ok THEN sent + 1 ELSE sent

\* Mutant: an exception of the facade ends the thread.
SenderAfterCall_Dies(ok) == IF ok THEN "check" ELSE "done"

\* The sender's position after a facade call that returned or raised
\* (the except clause prints and the while loop goes on).
SenderAfterCall(ok) == "check"

\* Mutant: flush never waits.
FlushWaits_Never(qlen, left) == FALSE

\* flush's loop test: `not self.queue.empty() and time.time() < deadline`.
FlushWaits(qlen, left) == qlen # 0 /\ left > 0

\* Where the caller of flush goes on: shutdown's next statement sets the
\* stop signal; a flush of the application's own returns to it.
AfterFlush(in_sd) == IF in_sd THEN "sd_stop" ELSE "idle"

\* Mutant: shutdown never joins the thread.
AfterStop_NoJoin(alive) == "sd_end"

\* shutdown's `if self.thread.is_alive(): self.thread.join(timeout=1.0)`.
AfterStop(alive) == IF alive THEN "sd_join" ELSE "sd_end"

\* Mutant: the join returns at once.
JoinReturns_Now(alive, left) == TRUE

\* thread.join(timeout) returns when the thread has ended or the time is up.
JoinReturns(alive, left) == ~alive \/ left = 0

\* Mutant: the snapshot reports an empty queue whatever the queue holds.
StatsSnapshot_NoQueue(sent, dropped, q) ==
    [sent |-> sent, dropped |-> dropped, queued |-> 0]

\* get_stats: {'sent': self.sent_count, 'dropped': self.dropped_count,
\*             'queued': self.queue.qsize()}
StatsSnapshot(sent, dropped, q) ==
    [sent |-> sent, dropped |-> dropped, queued |-> Len(q)]

\* ---------------------------------------------------------------- Init

\* AsyncSession.__init__ has returned: the sender thread is started.
SessionInit ==
    /\ drop_on_full \in BOOLEAN
    /\ queue_size \in 1..MaxQueue
    /\ queue = <<>>
    /\ running = TRUE
    /\ sent_count = 0
    /\ dropped_count = 0
    /\ w_pc = "check"
    /\ w_item = NoItem
    /\ a_pc = "idle"
    /\ a_item = NoItem
    /\ in_shutdown = FALSE
    /\ timer = 0
    /\ stats = NoStats
    /\ nenq = 0
    /\ accepted = <<>>
    /\ calls = <<>>
    /\ failed = 0
    /\ last = "none"
    /\ flush_obs = "none"
    /\ sd_steps = <<>>
    /\ sd_calls = 0

\* No thread is inside _queue_item.
EnqInit ==
    /\ e_pc = [t \in Enqueuers |-> "idle"]
    /\ e_seen = [t \in Enqueuers |-> 0]

\* No timed scope has been entered.
ScopeInit ==
    /\ tm = NoTimer
    /\ tm_pc = "out"
    /\ tm_block = "none"
    /\ tm_now = 0
    /\ tm_log = <<>>
    /\ tm_seen = "none"
    /\ tm_scopes = 0

\* Session.__init__: self._heartbeat_monitor = None.
MonitorNone ==
    /\ hb_monitor = 0
    /\ hb_timeout = 0
    /\ check_interval = 0
    /\ hb_running = FALSE
    /\ since_heartbeat = 0
    /\ hung_logged = FALSE
    /\ hb_thread = 0
    /\ c_pc = [i \in Threads |-> "none"]
    /\ c_sleep = [i \in Threads |-> 0]
    /\ m_pc = "idle"
    /\ m_timer = 0
    /\ m_last = "none"
    /\ hangs = 0
    /\ beat = FALSE
    /\ late = FALSE
    /\ in_end = FALSE
    /\ ended = FALSE
    /\ end_steps = <<>>

NoPath == <<>>
NoSeen == [sup |-> 0, value |-> FALSE]
NoFile == [path |-> <<>>, owner |-> 0, daemon_port |-> "none"]

\* The port numbers of the model: two that an application configures and two
\* that the operating system hands out for a bind to port 0.
ExplicitPorts == {"8079", "9000"}
EphemeralPorts == {"50001", "50002"}
ConfiguredPorts == {"auto"} \cup ExplicitPorts

\* os.path.join("tmp", "daemon_configs", "daemon_config_{}.json".format(port))
ConfigPath(port) == <<"tmp", "daemon_configs", "daemon_config_", port, ".json">>

Paths == {ConfigPath(port) : port \in ExplicitPorts \cup EphemeralPorts}

\* DaemonManager.__init__: process None, _started False, config_path None;
\* nothing is on disk.
SupInit ==
    /\ daemon_port = d_cfg
    /\ config_path = [m \in Sups |-> NoPath]
    /\ d_started = [m \in Sups |-> FALSE]
    /\ process = [m \in Sups |-> "none"]
    /\ proc_out = [m \in Sups |-> ""]
    /\ proc_env = [m \in Sups |-> NoPath]
    /\ d_pc = [m \in Sups |-> "idle"]
    /\ d_last = [m \in Sups |-> "none"]
    /\ d_err = [m \in Sups |-> <<>>]
    /\ d_seen = NoSeen
    /\ d_calls = 0
    /\ spawns = [m \in Sups |-> 0]
    /\ stop_steps = [m \in Sups |-> <<>>]
    /\ files = {}

\* An AsyncSession over a session of a DatacatClient, which always uses the
\* daemon (self.use_daemon = True) and builds its DaemonManager with
\* daemon_port "auto".
Init ==
    /\ SessionInit
    /\ use_daemon = TRUE
    /\ MonitorNone
    /\ d_cfg = [m \in Sups |-> "auto"]
    /\ SupInit
    /\ EnqInit
    /\ ScopeInit

senderVars == <<w_pc, w_item, sent_count, failed, calls>>
sessionCfg == <<drop_on_full, queue_size>>

\* ------------------------------------------------- application: enqueue

\* _queue_item(item_type, data); data is the call's number.
QueueItem(item_type) ==
    /\ a_pc = "idle"
    /\ nenq < MaxCalls
    /\ LET item == [type |-> item_type, data |-> nenq + 1]
           out == QueueItemOutcome(drop_on_full, Len(queue), queue_size)
       IN /\ nenq' = nenq + 1
          /\ flush_obs' = "none"
          /\ stats' = NoStats
          /\ CASE out = "put" ->
                    /\ queue' = QueuePut(queue, item)
                    /\ accepted' = Append(accepted, item.data)
                    /\ last' = "queued"
                    /\ UNCHANGED <<dropped_count, a_pc, a_item>>
               [] out = "drop" ->
                    /\ dropped_count' = DroppedAfter(dropped_count)
                    /\ last' = "dropped"
                    /\ UNCHANGED <<queue, accepted, a_pc, a_item>>
               [] out = "wait" ->
                    /\ a_pc' = "put_wait"
                    /\ a_item' = item
                    /\ last' = "pending"
                    /\ UNCHANGED <<queue, accepted, dropped_count>>
               [] OTHER ->
                    /\ last' = "enqueue_raised"
                    /\ UNCHANGED <<queue, accepted, dropped_count, a_pc, a_item>>
    /\ UNCHANGED <<enqVars, scopeVars, supVars, monVars, sessionCfg, running, senderVars, in_shutdown, timer,
                   sd_steps, sd_calls>>

log_event == QueueItem("event")
log_metric == QueueItem("metric")
update_state == QueueItem("state")
log_exception == QueueItem("exception")

\* A blocked queue.put() returns once the queue has space.
PutWake ==
    /\ a_pc = "put_wait"
    /\ Len(queue) < queue_size
    /\ queue' = QueuePut(queue, a_item)
    /\ accepted' = Append(accepted, a_item.data)
    /\ a_item' = NoItem
    /\ a_pc' = "idle"
    /\ last' = "unblocked"
    /\ UNCHANGED <<enqVars, scopeVars, supVars, monVars, sessionCfg, running, dropped_count, senderVars, in_shutdown,
                   timer, stats, nenq, flush_obs, sd_steps, sd_calls>>

\* ------------------------------------------------ application: get_stats

get_stats ==
    /\ a_pc = "idle"
    /\ stats' = StatsSnapshot(sent_count, dropped_count, queue)
    /\ last' = "stats"
    /\ UNCHANGED <<enqVars, scopeVars, supVars, monVars, sessionCfg, queue, running, dropped_count, senderVars,
                   a_pc, a_item, in_shutdown, timer, nenq, accepted,
                   flush_obs, sd_steps, sd_calls>>

\* ---------------------------------------------------- application: flush

\* flush(timeout) called by the application: deadline = now + timeout.
flush ==
    /\ a_pc = "idle"
    /\ \E timeout \in 0..MaxTimeout :
          /\ timer' = timeout
          /\ a_pc' = "flush"
          /\ in_shutdown' = FALSE
          /\ flush_obs' = "none"
          /\ stats' = NoStats
          /\ last' = "pending"
    /\ UNCHANGED <<enqVars, scopeVars, supVars, monVars, sessionCfg, queue, running, dropped_count, senderVars,
                   a_item, nenq, accepted, sd_steps, sd_calls>>

\* One test of flush's loop that ends the loop: flush returns, to the
\* application or into shutdown.  (A test that goes on sleeping changes nothing.)
FlushReturn ==
    /\ a_pc = "flush"
    /\ ~FlushWaits(Len(queue), timer)
    /\ flush_obs' = IF Len(queue) = 0 THEN "empty" ELSE "timeout"
    /\ timer' = 0
    /\ IF in_shutdown
          THEN /\ a_pc' = AfterFlush(TRUE)
               /\ sd_steps' = Append(sd_steps, "flush")
               /\ UNCHANGED last
          ELSE /\ a_pc' = AfterFlush(FALSE)
               /\ last' = IF Len(queue) = 0 THEN "flush_empty" ELSE "flush_timeout"
               /\ UNCHANGED sd_steps
    /\ UNCHANGED <<enqVars, scopeVars, supVars, monVars, sessionCfg, queue, running, dropped_count, senderVars,
                   a_item, in_shutdown, stats, nenq, accepted, sd_calls>>

\* One second passes while the application thread is in a bounded wait.
Tick ==
    /\ a_pc \in {"flush", "sd_join"}
    /\ timer > 0
    /\ timer' = timer - 1
    /\ UNCHANGED <<enqVars, scopeVars, supVars, monVars, sessionCfg, queue, running, dropped_count, senderVars,
                   a_pc, a_item, in_shutdown, stats, nenq, accepted, last,
                   flush_obs, sd_steps, sd_calls>>

\* ------------------------------------------------- application: shutdown

\* shutdown(timeout) up to its call of self.flush(timeout).
ShutdownCall(timeout) ==
    /\ a_pc = "idle"
    /\ sd_calls < MaxShutdowns
    /\ sd_calls' = sd_calls + 1
    /\ sd_steps' = <<>>
    /\ timer' = timeout
    /\ a_pc' = "flush"
    /\ in_shutdown' = TRUE
    /\ flush_obs' = "none"
    /\ stats' = NoStats
    /\ last' = "pending"
    /\ UNCHANGED <<enqVars, scopeVars, supVars, monVars, sessionCfg, queue, running, dropped_count, senderVars,
                   a_item, nenq, accepted>>

shutdown == \E timeout \in 0..MaxTimeout : ShutdownCall(timeout)

\* end(): alias for shutdown() with the default timeout.
end == ShutdownCall(DefaultTimeout)

\* self.running = False
ShutdownStop ==
    /\ a_pc = "sd_stop"
    /\ running' = FALSE
    /\ sd_steps' = Append(sd_steps, "stop")
    /\ a_pc' = "sd_alive"
    /\ UNCHANGED <<enqVars, scopeVars, supVars, monVars, sessionCfg, queue, dropped_count, senderVars, a_item,
                   in_shutdown, timer, stats, nenq, accepted, last, flush_obs,
                   sd_calls>>

\* if self.thread.is_alive(): start the bounded join, else go on to end.
ShutdownAlive ==
    /\ a_pc = "sd_alive"
    /\ a_pc' = AfterStop(w_pc # "done")
    /\ timer' = IF AfterStop(w_pc # "done") = "sd_join" THEN JoinTimeout ELSE 0
    /\ UNCHANGED <<enqVars, scopeVars, supVars, monVars, sessionCfg, queue, running, dropped_count, senderVars,
                   a_item, in_shutdown, stats, nenq, accepted, last, flush_obs,
                   sd_steps, sd_calls>>

\* self.thread.join(timeout=1.0) returns.
JoinReturn ==
    /\ a_pc = "sd_join"
    /\ JoinReturns(w_pc # "done", timer)
    /\ sd_steps' = Append(sd_steps, "join")
    /\ timer' = 0
    /\ a_pc' = "sd_end"
    /\ UNCHANGED <<enqVars, scopeVars, supVars, monVars, sessionCfg, queue, running, dropped_count, senderVars,
                   a_item, in_shutdown, stats, nenq, accepted, last, flush_obs,
                   sd_calls>>

\* return self.session.end(): Session.end stops the heartbeat monitor and
\* posts the end-session request, which returns or raises.
SessionEnd ==
    /\ a_pc = "sd_end"
    /\ \E ok \in BOOLEAN :
          /\ calls' = Append(calls, [op |-> "end", n |-> 0])
          /\ last' = IF ok THEN "shutdown_ok" ELSE "shutdown_raised"
    /\ sd_steps' = Append(sd_steps, "end")
    /\ a_pc' = "idle"
    /\ in_shutdown' = FALSE
    /\ UNCHANGED <<enqVars, scopeVars, supVars, monVars, sessionCfg, queue, running, sent_count, dropped_count,
                   w_pc, w_item, failed, a_item, timer, stats, nenq, accepted,
                   flush_obs, sd_calls>>

\* ------------------------------------------------- the background sender

appVars == <<a_pc, a_item, in_shutdown, timer, stats, nenq, accepted, last,
             flush_obs, sd_steps, sd_calls>>

\* while self.running:
SenderCheck ==
    /\ w_pc = "check"
    /\ w_pc' = IF running THEN "get" ELSE "done"
    /\ UNCHANGED <<enqVars, scopeVars, supVars, monVars, sessionCfg, queue, running, sent_count, dropped_count,
                   w_item, failed, calls, appVars>>

\* item = self.queue.get(timeout=0.01) takes the head; the sender picks the
\* facade method for its type and calls it.
SenderGet ==
    /\ w_pc = "get"
    /\ queue # <<>>
    /\ LET item == QueueGetItem(queue)
       IN /\ w_item' = item
          /\ calls' = IF FacadeOp(item.type) = "none" THEN calls
                      ELSE Append(calls, [op |-> "deliver",
                                          n |-> item.data])
    /\ queue' = QueueGetRest(queue)
    /\ w_pc' = "call"
    /\ UNCHANGED <<enqVars, scopeVars, supVars, monVars, sessionCfg, running, sent_count, dropped_count, failed,
                   appVars>>

\* The get timed out on an empty queue: except queue.Empty: continue.
SenderGetEmpty ==
    /\ w_pc = "get"
    /\ queue = <<>>
    /\ w_pc' = "check"
    /\ UNCHANGED <<enqVars, scopeVars, supVars, monVars, sessionCfg, queue, running, sent_count, dropped_count,
                   w_item, failed, calls, appVars>>

\* The facade call returns (sent_count += 1) or raises (printed, skipped).
SenderReturn ==
    /\ w_pc = "call"
    /\ \E ok \in BOOLEAN :
          /\ sent_count' = SentAfter(sent_count, ok)
          /\ failed' = IF ok THEN failed ELSE failed + 1
          /\ w_pc' = SenderAfterCall(ok)
    /\ w_item' = NoItem
    /\ UNCHANGED <<enqVars, scopeVars, supVars, monVars, sessionCfg, queue, running, dropped_count, calls, appVars>>

\* ---------------------------------------------------------------- Spec

Next ==
    \/ log_event
    \/ log_metric
    \/ update_state
    \/ log_exception
    \/ PutWake
    \/ get_stats
    \/ flush
    \/ FlushReturn
    \/ Tick
    \/ shutdown
    \/ end
    \/ ShutdownStop
    \/ ShutdownAlive
    \/ JoinReturn
    \/ SessionEnd
    \/ SenderCheck
    \/ SenderGet
    \/ SenderGetEmpty
    \/ SenderReturn

Spec == Init /\ [][Next]_vars

\* The sender is a thread of its own, scheduled whatever the application
\* does, and every facade call returns or raises in the end.
SenderFair ==
    /\ WF_vars(SenderCheck)
    /\ WF_vars(SenderGet)
    /\ WF_vars(SenderGetEmpty)
    /\ WF_vars(SenderReturn)

FairSpec == Spec /\ SenderFair

\* queue.put() returns once the queue has space: the blocked application
\* thread is scheduled like the sender.
PutFairSpec == Spec /\ SenderFair /\ WF_vars(PutWake)

TypeOK ==
    /\ drop_on_full \in BOOLEAN
    /\ queue_size \in 1..MaxQueue
    /\ Len(queue) <= queue_size
    /\ running \in BOOLEAN
    /\ sent_count \in 0..MaxCalls
    /\ dropped_count \in 0..MaxCalls
    /\ w_pc \in {"check", "get", "call", "done"}
    /\ a_pc \in {"idle", "put_wait", "flush", "sd_stop", "sd_alive", "sd_join",
                 "sd_end"}
    /\ timer \in 0..(IF MaxTimeout > DefaultTimeout THEN MaxTimeout ELSE DefaultTimeout)
    /\ nenq \in 0..MaxCalls
    /\ sd_calls \in 0..MaxShutdowns

\* ======================================================= HeartbeatMonitor

sessionVars == <<sessionCfg, queue, running, dropped_count, senderVars,
                 appVars>>

endVars == <<in_end, ended, end_steps>>

Min(a, b) == IF a < b THEN a ELSE b

\* threading.Thread.is_alive() of checker thread i.
Alive(i) == c_pc[i] \notin {"none", "done"}

\* `self._thread and self._thread.is_alive()`.
ThreadAlive(t) == t # 0 /\ Alive(t)

\* Mutant: the lock is never held.
LockFree_Always == TRUE

\* self._lock is free: heartbeat holds it from its timestamp to its return,
\* a checker holds it while it evaluates and while it logs the hang event.
LockFree ==
    /\ m_pc \notin {"hb_req", "hb_rec"}
    /\ \A i \in Threads : c_pc[i] # "emit"

\* since_heartbeat is counted up to this value, which is beyond every
\* elapsed time the program or a property compares it with.
Horizon == hb_timeout + check_interval + 1

\* Session.start_heartbeat_monitor: `if self._heartbeat_monitor is None`.
NeedsNewMonitor(existing) == existing = 0

\* Mutant: start() never finds the monitor running.
AlreadyRunning_Never(is_on) == FALSE

\* start: `if self._running: return self`.
AlreadyRunning(is_on) == is_on

\* _monitor_loop: `time_since_heartbeat > self.timeout and not
\* self._hung_logged`.
HangDue(elapsed, limit, logged) == elapsed > limit /\ ~logged

\* _monitor_loop: self._hung_logged = True follows log_event inside the try,
\* so it is skipped when log_event raises.
FlagAfterEmit(logged, ok) == IF ok THEN TRUE ELSE logged

\* Mutant: an exception of log_event ends the checker thread.
CheckerAfterEmit_Dies(ok) == IF ok THEN "test" ELSE "done"

\* _monitor_loop: `except Exception: pass`, and the while loop goes on.
CheckerAfterEmit(ok) == "test"

\* heartbeat: `except Exception: pass` around the request and around the
\* recovery event: "pass" - the method goes on, "raise" - it would not.
HeartbeatCatch(ok) == "pass"

\* Mutant: a recovery event is logged at every heartbeat.
RecoveryDue_Always(logged) == TRUE

\* heartbeat: `if self._hung_logged`.
RecoveryDue(logged) == logged

\* Mutant: the checker evaluates whatever the client uses.
AfterSleep_NoDaemonTest(daemon) == "lock"

\* _monitor_loop after the sleep: `if self.client.use_daemon: continue`,
\* else on to `with self._lock`.
AfterSleep(daemon) == IF daemon THEN "test" ELSE "lock"

\* Mutant: stop does not wait for the thread.
JoinTime_None(interval) == 0

\* stop: self._thread.join(timeout=self.check_interval + 1).
JoinTime(interval) == interval + JoinSlack

\* Mutant: end() leaves the monitor alone.
EndStopsMonitor_Never(existing) == FALSE

\* Session.end: `if self._heartbeat_monitor: self._heartbeat_monitor.stop()`.
EndStopsMonitor(existing) == existing # 0

\* Where the caller of the monitor's stop() goes on: Session.end's next
\* statement is the end-session request; a stop of the application's own
\* returns to it.
AfterMonitorStop(in_session_end) == IF in_session_end THEN "end_req" ELSE "idle"

\* Mutant: is_running looks at the thread only.
IsRunning_ThreadOnly(is_on, t, alive) == t # 0 /\ alive

\* is_running: self._running and self._thread and self._thread.is_alive().
IsRunning(is_on, t, alive) == is_on /\ t # 0 /\ alive

\* ------------------------------------------- application: start the monitor

\* HeartbeatMonitor.start(), `noop` being its test of self._running.
StartMonitor(noop) ==
    IF noop
       THEN /\ m_last' = "already_running"
            /\ UNCHANGED <<hb_running, since_heartbeat, hung_logged, hb_thread,
                           c_pc, hangs, beat, late>>
       ELSE /\ hb_thread < MaxStarts
            /\ hb_running' = TRUE
            /\ since_heartbeat' = 0
            /\ hung_logged' = FALSE
            /\ hb_thread' = hb_thread + 1
            /\ c_pc' = [c_pc EXCEPT ![hb_thread + 1] = "test"]
            /\ m_last' = "started"
            /\ hangs' = 0
            /\ beat' = FALSE
            /\ late' = FALSE

\* Session.start_heartbeat_monitor(timeout, check_interval): builds the
\* monitor if the session has none, starts it and returns it.
start_heartbeat_monitor ==
    /\ m_pc = "idle"
    /\ ~ended            \* Session.end is the application's last lifecycle call
    /\ \E t \in 1..MaxHbTimeout, ci \in 1..MaxInterval :
          IF NeedsNewMonitor(hb_monitor)
             THEN /\ hb_monitor' = hb_monitor + 1
                  /\ hb_timeout' = t
                  /\ check_interval' = ci
                  /\ StartMonitor(AlreadyRunning(FALSE))
             ELSE /\ UNCHANGED <<hb_monitor, hb_timeout, check_interval>>
                  /\ StartMonitor(AlreadyRunning(hb_running))
    /\ UNCHANGED <<enqVars, scopeVars, supVars, sessionVars, endVars, use_daemon, c_sleep, m_pc, m_timer>>

\* HeartbeatMonitor.start() called on the session's monitor.
start ==
    /\ m_pc = "idle"
    /\ ~ended            \* Session.end is the application's last lifecycle call
    /\ hb_monitor # 0
    /\ StartMonitor(AlreadyRunning(hb_running))
    /\ UNCHANGED <<enqVars, scopeVars, supVars, sessionVars, endVars, hb_monitor, use_daemon, hb_timeout,
                   check_interval, c_sleep, m_pc, m_timer>>

\* ------------------------------------------------ application: heartbeat

\* heartbeat() is called and reaches `with self._lock`.
heartbeat ==
    /\ m_pc = "idle"
    /\ hb_monitor # 0
    /\ m_pc' = "hb_lock"
    /\ m_last' = "pending"
    /\ UNCHANGED <<enqVars, scopeVars, supVars, sessionVars, endVars, hb_monitor, use_daemon, hb_timeout,
                   check_interval, hb_running, since_heartbeat, hung_logged,
                   hb_thread, c_pc, c_sleep, m_timer, hangs, beat,
                   late>>

\* The lock is taken, self._last_heartbeat = time.time(), and the heartbeat
\* request is sent.
HeartbeatLock ==
    /\ m_pc = "hb_lock"
    /\ LockFree
    /\ since_heartbeat' = 0
    /\ m_pc' = "hb_req"
    /\ hangs' = 0
    /\ beat' = TRUE
    /\ UNCHANGED <<enqVars, scopeVars, supVars, sessionVars, endVars, hb_monitor, use_daemon, hb_timeout,
                   check_interval, hb_running, hung_logged, hb_thread, c_pc,
                   c_sleep, m_timer, m_last, late>>

\* The heartbeat request returns or raises; then `if self._hung_logged`: the
\* flag is reset and the recovery event is logged, else heartbeat returns.
HeartbeatRequest ==
    /\ m_pc = "hb_req"
    /\ \E ok \in BOOLEAN :
          IF HeartbeatCatch(ok) = "pass"
             THEN IF RecoveryDue(hung_logged)
                     THEN /\ hung_logged' = FALSE
                          /\ m_pc' = "hb_rec"
                          /\ UNCHANGED m_last
                     ELSE /\ m_pc' = "idle"
                          /\ m_last' = "heartbeat"
                          /\ UNCHANGED hung_logged
             ELSE /\ m_pc' = "idle"
                  /\ m_last' = "heartbeat_raised"
                  /\ UNCHANGED hung_logged
    /\ UNCHANGED <<enqVars, scopeVars, supVars, sessionVars, endVars, hb_monitor, use_daemon, hb_timeout,
                   check_interval, hb_running, since_heartbeat, hb_thread,
                   c_pc, c_sleep, m_timer, hangs, beat, late>>

\* log_event("application_recovered") returns or raises; heartbeat returns.
HeartbeatRecovered ==
    /\ m_pc = "hb_rec"
    /\ m_pc' = "idle"
    /\ \E ok \in BOOLEAN :
          m_last' = IF HeartbeatCatch(ok) = "pass" THEN "heartbeat"
                    ELSE "heartbeat_raised"
    /\ UNCHANGED <<enqVars, scopeVars, supVars, sessionVars, endVars, hb_monitor, use_daemon, hb_timeout,
                   check_interval, hb_running, since_heartbeat, hung_logged,
                   hb_thread, c_pc, c_sleep, m_timer, hangs, beat,
                   late>>

\* ----------------------------------------- application: stop, is_running

\* stop(): self._running = False, then the bounded join if the thread lives.
stop ==
    /\ m_pc = "idle"
    /\ ~ended            \* Session.end is the application's last lifecycle call
    /\ hb_monitor # 0
    /\ hb_running' = FALSE
    /\ IF ThreadAlive(hb_thread)
          THEN /\ m_pc' = "join"
               /\ m_timer' = JoinTime(check_interval)
               /\ m_last' = "pending"
          ELSE /\ m_last' = "stopped"
               /\ UNCHANGED <<m_pc, m_timer>>
    /\ UNCHANGED <<enqVars, scopeVars, supVars, sessionVars, endVars, hb_monitor, use_daemon, hb_timeout,
                   check_interval, since_heartbeat, hung_logged, hb_thread,
                   c_pc, c_sleep, hangs, beat, late>>

\* self._thread.join(timeout=...) returns; stop returns.
StopJoined ==
    /\ m_pc = "join"
    /\ JoinReturns(ThreadAlive(hb_thread), m_timer)
    /\ m_timer' = 0
    /\ in_end' = FALSE
    /\ IF in_end
          THEN /\ m_pc' = AfterMonitorStop(TRUE)
               /\ end_steps' = Append(end_steps, "stop")
               /\ UNCHANGED m_last
          ELSE /\ m_pc' = AfterMonitorStop(FALSE)
               /\ m_last' = "stopped"
               /\ UNCHANGED end_steps
    /\ UNCHANGED <<enqVars, scopeVars, supVars, sessionVars, ended, hb_monitor, use_daemon, hb_timeout,
                   check_interval, hb_running, since_heartbeat, hung_logged,
                   hb_thread, c_pc, c_sleep, hangs, beat, late>>

\* Session.end(): stops the monitor if the session has one (on to the join
\* when the checker thread is alive), then on to the end-session request.
session_end ==
    /\ m_pc = "idle"
    /\ ~ended            \* Session.end is the application's last lifecycle call
    /\ m_last' = "pending"
    /\ IF EndStopsMonitor(hb_monitor)
          THEN /\ hb_running' = FALSE
               /\ IF ThreadAlive(hb_thread)
                     THEN /\ m_pc' = "join"
                          /\ m_timer' = JoinTime(check_interval)
                          /\ in_end' = TRUE
                          /\ end_steps' = <<>>
                     ELSE /\ m_pc' = AfterMonitorStop(TRUE)
                          /\ end_steps' = <<"stop">>
                          /\ UNCHANGED <<m_timer, in_end>>
          ELSE /\ m_pc' = AfterMonitorStop(TRUE)
               /\ end_steps' = <<>>
               /\ UNCHANGED <<hb_running, m_timer, in_end>>
    /\ UNCHANGED <<enqVars, scopeVars, supVars, sessionVars, ended, hb_monitor, use_daemon,
                   hb_timeout, check_interval, since_heartbeat, hung_logged,
                   hb_thread, c_pc, c_sleep, hangs, beat, late>>

\* return self.client.end_session(self.session_id): the request returns or
\* raises, and so does end.
EndRequest ==
    /\ m_pc = "end_req"
    /\ \E ok \in BOOLEAN :
          m_last' = IF ok THEN "ended" ELSE "end_raised"
    /\ end_steps' = Append(end_steps, "request")
    /\ ended' = TRUE
    /\ m_pc' = "idle"
    /\ UNCHANGED <<enqVars, scopeVars, supVars, sessionVars, in_end, hb_monitor, use_daemon,
                   hb_timeout, check_interval, hb_running, since_heartbeat,
                   hung_logged, hb_thread, c_pc, c_sleep, m_timer, hangs,
                   beat, late>>

\* Session.update_state / log_event / log_metric / log_exception: each
\* passes the call on to the client, whose request returns or raises.
session_log ==
    /\ m_pc = "idle"
    /\ \E ok \in BOOLEAN : m_last' = IF ok THEN "logged" ELSE "log_raised"
    /\ UNCHANGED <<enqVars, scopeVars, supVars, sessionVars, endVars, hb_monitor, use_daemon,
                   hb_timeout, check_interval, hb_running, since_heartbeat,
                   hung_logged, hb_thread, c_pc, c_sleep, m_pc, m_timer,
                   hangs, beat, late>>

is_running ==
    /\ m_pc = "idle"
    /\ ~ended            \* Session.end is the application's last lifecycle call
    /\ hb_monitor # 0
    /\ m_last' = IF IsRunning(hb_running, hb_thread, ThreadAlive(hb_thread))
                 THEN "is_running" ELSE "not_running"
    /\ UNCHANGED <<enqVars, scopeVars, supVars, sessionVars, endVars, hb_monitor, use_daemon, hb_timeout,
                   check_interval, hb_running, since_heartbeat, hung_logged,
                   hb_thread, c_pc, c_sleep, m_pc, m_timer, hangs, beat,
                   late>>

\* ------------------------------------------- the checker: _monitor_loop

appMonVars == <<hb_monitor, use_daemon, hb_timeout, check_interval,
                hb_running, since_heartbeat, hb_thread, m_pc, m_timer,
                m_last, beat, late>>

\* while self._running: time.sleep(self.check_interval)
MonitorLoopTest(i) ==
    /\ c_pc[i] = "test"
    /\ IF hb_running
          THEN /\ c_pc' = [c_pc EXCEPT ![i] = "sleep"]
               /\ c_sleep' = [c_sleep EXCEPT ![i] = check_interval]
          ELSE /\ c_pc' = [c_pc EXCEPT ![i] = "done"]
               /\ UNCHANGED c_sleep
    /\ UNCHANGED <<enqVars, scopeVars, supVars, sessionVars, endVars, appMonVars, hung_logged, hangs>>

\* The sleep is over: `if self.client.use_daemon: continue`, else on to
\* `with self._lock`.
MonitorWake(i) ==
    /\ c_pc[i] = "sleep"
    /\ c_sleep[i] = 0
    /\ c_pc' = [c_pc EXCEPT ![i] = AfterSleep(use_daemon)]
    /\ UNCHANGED <<enqVars, scopeVars, supVars, sessionVars, endVars, appMonVars, c_sleep, hung_logged, hangs>>

\* The lock is taken and the elapsed time evaluated: the hang event is
\* logged (the lock kept during the call), or the lock is released.
MonitorCheck(i) ==
    /\ c_pc[i] = "lock"
    /\ LockFree
    /\ IF HangDue(since_heartbeat, hb_timeout, hung_logged)
          THEN /\ c_pc' = [c_pc EXCEPT ![i] = "emit"]
               /\ hangs' = Min(hangs + 1, 2)
          ELSE /\ c_pc' = [c_pc EXCEPT ![i] = "test"]
               /\ UNCHANGED hangs
    /\ UNCHANGED <<enqVars, scopeVars, supVars, sessionVars, endVars, appMonVars, c_sleep, hung_logged>>

\* log_event("application_appears_hung") returns (the flag is set) or
\* raises (it is not); the lock is released.
MonitorEmitted(i) ==
    /\ c_pc[i] = "emit"
    /\ \E ok \in BOOLEAN :
          /\ hung_logged' = FlagAfterEmit(hung_logged, ok)
          /\ c_pc' = [c_pc EXCEPT ![i] = CheckerAfterEmit(ok)]
    /\ UNCHANGED <<enqVars, scopeVars, supVars, sessionVars, endVars, appMonVars, c_sleep, hangs>>

\* ------------------------------------------------------------ the clock

\* Some thread is ready to take a step that takes no time.
Urgent ==
    \/ \E i \in Threads : \/ c_pc[i] = "test"
                          \/ c_pc[i] = "sleep" /\ c_sleep[i] = 0
                          \/ c_pc[i] = "lock" /\ LockFree
    \/ m_pc = "hb_lock" /\ LockFree
    \/ m_pc = "join" /\ JoinReturns(ThreadAlive(hb_thread), m_timer)

\* One second passes.
MonTick ==
    /\ hb_monitor # 0
    /\ ~Urgent
    /\ since_heartbeat' = Min(since_heartbeat + 1, Horizon)
    /\ c_sleep' = [i \in Threads |->
                      IF c_pc[i] = "sleep" THEN c_sleep[i] - 1 ELSE c_sleep[i]]
    /\ m_timer' = IF m_pc = "join" THEN m_timer - 1 ELSE m_timer
    /\ late' = (late \/ (hb_running /\ since_heartbeat + 1 >= hb_timeout))
    /\ UNCHANGED <<enqVars, scopeVars, supVars, sessionVars, endVars, hb_monitor, use_daemon, hb_timeout,
                   check_interval, hb_running, hung_logged, hb_thread, c_pc,
                   m_pc, m_last, hangs, beat>>

\* ------------------------------------------------------------- MonSpec

\* An idle drop-policy session whose client may or may not use the daemon
\* (the unit tests pass a client with use_daemon = False).
MonInit ==
    /\ SessionInit
    /\ drop_on_full = TRUE
    /\ queue_size = MaxQueue
    /\ use_daemon \in BOOLEAN
    /\ MonitorNone
    /\ d_cfg = [m \in Sups |-> "auto"]
    /\ SupInit
    /\ EnqInit
    /\ ScopeInit

MonNext ==
    \/ start_heartbeat_monitor
    \/ start
    \/ heartbeat
    \/ HeartbeatLock
    \/ HeartbeatRequest
    \/ HeartbeatRecovered
    \/ stop
    \/ StopJoined
    \/ is_running
    \/ session_end
    \/ EndRequest
    \/ session_log
    \/ \E i \in Threads : MonitorLoopTest(i)
    \/ \E i \in Threads : MonitorWake(i)
    \/ \E i \in Threads : MonitorCheck(i)
    \/ \E i \in Threads : MonitorEmitted(i)
    \/ MonTick

MonSpec == MonInit /\ [][MonNext]_vars

MonTypeOK ==
    /\ hb_monitor \in 0..1
    /\ use_daemon \in BOOLEAN
    /\ hb_timeout \in 0..MaxHbTimeout
    /\ check_interval \in 0..MaxInterval
    /\ hb_running \in BOOLEAN
    /\ since_heartbeat \in 0..Horizon
    /\ hung_logged \in BOOLEAN
    /\ hb_thread \in 0..MaxStarts
    /\ \A i \in Threads :
          /\ c_pc[i] \in {"none", "test", "sleep", "lock", "emit", "done"}
          /\ c_sleep[i] \in 0..MaxInterval
          /\ (i > hb_thread) = (c_pc[i] = "none")
    /\ m_pc \in {"idle", "hb_lock", "hb_req", "hb_rec", "join", "end_req"}
    /\ in_end \in BOOLEAN
    /\ in_end => m_pc = "join"
    /\ ended \in BOOLEAN
    /\ m_timer \in 0..(MaxInterval + JoinSlack)
    /\ m_last \in {"none", "pending", "started", "already_running",
                   "heartbeat", "stopped", "is_running", "not_running",
                   "ended", "end_raised", "logged", "log_raised"}
    /\ hangs \in 0..2
    /\ Cardinality({i \in Threads : c_pc[i] = "emit"}) <= 1
    /\ ~(m_pc \in {"hb_req", "hb_rec"} /\ \E i \in Threads : c_pc[i] = "emit")

\* ========================================================== DaemonManager

DaemonBinary == "datacat-daemon"

\* What a subprocess that gives up writes to stderr before it exits.
Outputs == {"bind: address already in use", "invalid config"}

\* The text of the OSError Popen raises for a missing binary.
SpawnErrors == {"No such file or directory"}

\* process.poll() is None.
PollNone(proc) == proc = "alive"

\* Mutant: start() looks at the flag only.
DAlreadyRunning_FlagOnly(started, proc) == started /\ proc = "none"

\* start: `if self._started and self.process and self.process.poll() is None`.
DAlreadyRunning(started, proc) == started /\ proc # "none" /\ PollNone(proc)

\* start: `if self.daemon_port == "auto" or self.daemon_port == "8079"`.
NeedsAutoPort(port) == port = "auto" \/ port = "8079"

\* _find_available_port: a bind to port 0 returns a port no live process
\* holds; the socket is closed again before the port is used.
FreePorts ==
    EphemeralPorts \ {daemon_port[k] : k \in {j \in Sups : process[j] = "alive"}}

\* Mutant: the error message leaves the output of the subprocess out.
ExitedMessage_NoOutput(stderr, stdout) == <<"Daemon failed to start.">>

\* start: the message of the exception raised when the poll after the grace
\* period finds the subprocess gone.
ExitedMessage(stderr, stdout) ==
    <<"Daemon failed to start. Stderr: ", stderr, ", Stdout: ", stdout>>

\* start: the message of the exception that replaces Popen's OSError.
SpawnMessage(binary, e) ==
    <<"Failed to start daemon binary '", binary, "': ", e>>

Includes(message, part) == \E i \in 1..Len(message) : message[i] = part

\* Mutant: the subprocess is killed whether the wait completed or not.
AfterWait_AlwaysKill(completed) == <<"kill">>

\* stop: `try: self.process.wait(timeout=5)  except Exception:
\* self.process.kill()`: what follows the wait.
AfterWait(completed) == IF completed THEN <<>> ELSE <<"kill">>

\* Mutant: stop() leaves the configuration file.
RemoveConfig_Keep(fs, path) == fs

\* stop: `if os.path.exists(self.config_path): os.remove(self.config_path)`
\* inside try/except: with config_path None the TypeError is swallowed.
RemoveConfig(fs, path) ==
    IF path = NoPath THEN fs ELSE {f \in fs : f.path # path}

\* open(path, "w") and json.dump: the file is made, or its content replaced.
WriteConfig(fs, path, writer, port) ==
    {f \in fs : f.path # path}
        \cup {[path |-> path, owner |-> writer, daemon_port |-> port]}

\* The file at a path (NoFile: os.path.exists(path) is false).
FileAt(path) ==
    IF \E f \in files : f.path = path
       THEN CHOOSE f \in files : f.path = path
       ELSE NoFile

\* is_running: self._started and self.process and self.process.poll() is None.
DIsRunning(started, proc) == started /\ proc # "none" /\ PollNone(proc)

\* The statements of stop() after the subprocess has been dealt with.
StopFinish(m) ==
    /\ d_started' = [d_started EXCEPT ![m] = FALSE]
    /\ files' = RemoveConfig(files, config_path[m])
    /\ d_pc' = [d_pc EXCEPT ![m] = "idle"]
    /\ d_last' = [d_last EXCEPT ![m] = "stopped"]

\* ----------------------------------------------------- supervisor: start

\* start(): returns at once on a running supervisor; else resolves the port
\* and sets config_path (making the directory), up to the open for writing.
DStart(m) ==
    /\ d_seen' = NoSeen
    /\ d_pc[m] = "idle"
    /\ d_calls < MaxSupStarts
    /\ d_calls' = d_calls + 1
    /\ IF DAlreadyRunning(d_started[m], process[m])
          THEN /\ d_last' = [d_last EXCEPT ![m] = "already_running"]
               /\ UNCHANGED <<daemon_port, config_path, d_pc, d_err>>
          ELSE /\ \E port \in (IF NeedsAutoPort(daemon_port[m]) THEN FreePorts
                              ELSE {daemon_port[m]}) :
                     /\ daemon_port' = [daemon_port EXCEPT ![m] = port]
                     /\ config_path' = [config_path EXCEPT ![m] = ConfigPath(port)]
               /\ d_pc' = [d_pc EXCEPT ![m] = "write"]
               /\ d_last' = [d_last EXCEPT ![m] = "pending"]
               /\ d_err' = [d_err EXCEPT ![m] = <<>>]
    /\ UNCHANGED <<enqVars, scopeVars, monVars, sessionVars, d_cfg, d_started, process, proc_out,
                   proc_env, spawns, stop_steps, files>>

\* with open(self.config_path, "w") as f: json.dump(config, f, indent=2)
DWriteConfig(m) ==
    /\ d_seen' = NoSeen
    /\ d_pc[m] = "write"
    /\ files' = WriteConfig(files, config_path[m], m, daemon_port[m])
    /\ d_pc' = [d_pc EXCEPT ![m] = "spawn"]
    /\ UNCHANGED <<enqVars, scopeVars, monVars, sessionVars, d_cfg, daemon_port, config_path,
                   d_started, process, proc_out, proc_env, d_last, d_err,
                   d_calls, spawns, stop_steps>>

\* subprocess.Popen([self.daemon_binary], ..., env=DATACAT_CONFIG=config_path)
\* returns (self._started = True, then the sleep) or raises OSError, which
\* start replaces by its own exception.
DSpawn(m) ==
    /\ d_seen' = NoSeen
    /\ d_pc[m] = "spawn"
    /\ spawns' = [spawns EXCEPT ![m] = @ + 1]
    /\ \/ /\ process' = [process EXCEPT ![m] = "alive"]
          /\ proc_out' = [proc_out EXCEPT ![m] = ""]
          /\ proc_env' = [proc_env EXCEPT ![m] = config_path[m]]
          /\ d_started' = [d_started EXCEPT ![m] = TRUE]
          /\ d_pc' = [d_pc EXCEPT ![m] = "grace"]
          /\ UNCHANGED <<d_last, d_err>>
       \/ /\ \E e \in SpawnErrors :
                d_err' = [d_err EXCEPT ![m] = SpawnMessage(DaemonBinary, e)]
          /\ d_last' = [d_last EXCEPT ![m] = "failed_spawn"]
          /\ d_pc' = [d_pc EXCEPT ![m] = "idle"]
          /\ UNCHANGED <<process, proc_out, proc_env, d_started>>
    /\ UNCHANGED <<enqVars, scopeVars, monVars, sessionVars, d_cfg, daemon_port, config_path,
                   d_calls, stop_steps, files>>

\* The grace period is over: `if self.process.poll() is not None` start
\* raises with the captured output, else it registers stop with atexit and
\* returns.
DPoll(m) ==
    /\ d_seen' = NoSeen
    /\ d_pc[m] = "grace"
    /\ IF PollNone(process[m])
          THEN /\ d_last' = [d_last EXCEPT ![m] = "started"]
               /\ UNCHANGED d_err
          ELSE /\ d_last' = [d_last EXCEPT ![m] = "failed_exited"]
               /\ d_err' = [d_err EXCEPT ![m] = ExitedMessage(proc_out[m], "")]
    /\ d_pc' = [d_pc EXCEPT ![m] = "idle"]
    /\ UNCHANGED <<enqVars, scopeVars, monVars, sessionVars, d_cfg, daemon_port, config_path,
                   d_started, process, proc_out, proc_env, d_calls,
                   spawns, stop_steps, files>>

\* The subprocess exits on its own (it could not bind its port, it was asked
\* to terminate, it crashed), leaving a line on stderr.
ProcExit(m) ==
    /\ d_seen' = NoSeen
    /\ process[m] = "alive"
    /\ process' = [process EXCEPT ![m] = "exited"]
    /\ \E out \in Outputs : proc_out' = [proc_out EXCEPT ![m] = out]
    /\ UNCHANGED <<enqVars, scopeVars, monVars, sessionVars, d_cfg, daemon_port, config_path,
                   d_started, proc_env, d_pc, d_last, d_err, d_calls,
                   spawns, stop_steps, files>>

\* ------------------------------------------------------ supervisor: stop

\* stop(): on a live subprocess terminate() and on to the bounded wait; else
\* straight to the flag and the removal of the configuration file.
DStop(m) ==
    /\ d_seen' = NoSeen
    /\ d_pc[m] = "idle"
    /\ IF process[m] # "none" /\ PollNone(process[m])
          THEN /\ stop_steps' = [stop_steps EXCEPT ![m] = <<"alive", "terminate">>]
               /\ d_pc' = [d_pc EXCEPT ![m] = "wait"]
               /\ d_last' = [d_last EXCEPT ![m] = "pending"]
               /\ UNCHANGED <<d_started, files>>
          ELSE /\ stop_steps' = [stop_steps EXCEPT ![m] = <<"dead">>]
               /\ StopFinish(m)
    /\ UNCHANGED <<enqVars, scopeVars, monVars, sessionVars, d_cfg, daemon_port, config_path,
                   process, proc_out, proc_env, d_err, d_calls, spawns>>

\* process.wait(timeout=5) returns because the subprocess has exited, or
\* raises because the time is up and the subprocess is killed (SIGKILL: the
\* subprocess does not run again).
DWaitEnds(m) ==
    /\ d_seen' = NoSeen
    /\ d_pc[m] = "wait"
    /\ LET completed == ~PollNone(process[m])
       IN /\ stop_steps' = [stop_steps EXCEPT ![m] =
                              @ \o <<IF completed THEN "wait_returned"
                                     ELSE "wait_raised">> \o AfterWait(completed)]
          /\ process' = [process EXCEPT ![m] =
                           IF AfterWait(completed) = <<"kill">> /\ PollNone(@)
                           THEN "killed" ELSE @]
    /\ StopFinish(m)
    /\ UNCHANGED <<enqVars, scopeVars, monVars, sessionVars, d_cfg, daemon_port, config_path,
                   proc_out, proc_env, d_err, d_calls, spawns>>

\* is_running(), called from any thread at any time.
DIsRunningCall(m) ==
    /\ d_seen' = [sup |-> m,
                   value |-> DIsRunning(d_started[m], process[m])]
    /\ UNCHANGED <<enqVars, scopeVars, monVars, sessionVars, d_cfg, daemon_port, config_path,
                   d_started, process, proc_out, proc_env, d_pc, d_last,
                   d_err, d_calls, spawns, stop_steps, files>>

\* ------------------------------------------------------------- SupSpec

\* Two supervisors built in one working directory, each with "auto" or with
\* a port number, over an idle session.
SupSpecInit ==
    /\ SessionInit
    /\ drop_on_full = TRUE
    /\ queue_size = MaxQueue
    /\ use_daemon = TRUE
    /\ MonitorNone
    /\ d_cfg \in [Sups -> ConfiguredPorts]
    /\ SupInit
    /\ EnqInit
    /\ ScopeInit

SupNext ==
    \/ \E m \in Sups : DStart(m)
    \/ \E m \in Sups : DWriteConfig(m)
    \/ \E m \in Sups : DSpawn(m)
    \/ \E m \in Sups : DPoll(m)
    \/ \E m \in Sups : ProcExit(m)
    \/ \E m \in Sups : DStop(m)
    \/ \E m \in Sups : DWaitEnds(m)
    \/ \E m \in Sups : DIsRunningCall(m)

SupSpec == SupSpecInit /\ [][SupNext]_vars

SupTypeOK ==
    /\ d_cfg \in [Sups -> ConfiguredPorts]
    /\ \A m \in Sups :
          /\ daemon_port[m] \in ConfiguredPorts \cup EphemeralPorts
          /\ config_path[m] \in Paths \cup {NoPath}
          /\ d_started[m] \in BOOLEAN
          /\ process[m] \in {"none", "alive", "exited", "killed"}
          /\ d_pc[m] \in {"idle", "write", "spawn", "grace", "wait"}
          /\ spawns[m] \in 0..MaxSupStarts
    /\ d_calls \in 0..MaxSupStarts
    /\ d_seen.sup \in Sups \cup {0}
    /\ \A f \in files : f.path \in Paths /\ f.owner \in Sups
    /\ \A f, g \in files : f.path = g.path => f = g

\* ==================================== several threads in _queue_item

\* self.queue.put_nowait(item) in thread t (the drop policy): the item is
\* placed and the call returns, or queue.Full is raised and caught.
PutNowait(t) ==
    /\ e_pc[t] = "idle"
    /\ nenq < MaxRaceCalls
    /\ nenq' = nenq + 1
    /\ LET item == [type |-> "event", data |-> nenq + 1]
       IN IF QueueItemOutcome(drop_on_full, Len(queue), queue_size) = "put"
             THEN /\ queue' = QueuePut(queue, item)
                  /\ accepted' = Append(accepted, item.data)
                  /\ UNCHANGED e_pc
             ELSE /\ e_pc' = [e_pc EXCEPT ![t] = "load"]
                  /\ UNCHANGED <<queue, accepted>>
    /\ UNCHANGED <<scopeVars, supVars, monVars, sessionCfg, running,
                   dropped_count, senderVars, a_pc, a_item, in_shutdown,
                   timer, stats, last, flush_obs, sd_steps, sd_calls, e_seen>>

\* self.dropped_count += 1, first half: thread t reads the attribute.
DroppedLoad(t) ==
    /\ e_pc[t] = "load"
    /\ e_seen' = [e_seen EXCEPT ![t] = dropped_count]
    /\ e_pc' = [e_pc EXCEPT ![t] = "store"]
    /\ UNCHANGED <<scopeVars, supVars, monVars, sessionCfg, queue, running,
                   dropped_count, senderVars, appVars>>

\* self.dropped_count += 1, second half: thread t writes the sum back, and
\* _queue_item returns.
DroppedStore(t) ==
    /\ e_pc[t] = "store"
    /\ dropped_count' = DroppedAfter(e_seen[t])
    /\ e_seen' = [e_seen EXCEPT ![t] = 0]
    /\ e_pc' = [e_pc EXCEPT ![t] = "idle"]
    /\ UNCHANGED <<scopeVars, supVars, monVars, sessionCfg, queue, running,
                   senderVars, appVars>>

\* A drop-policy session whose logging API is called by several threads,
\* with its sender running.
RaceInit ==
    /\ SessionInit
    /\ drop_on_full = TRUE
    /\ use_daemon = TRUE
    /\ MonitorNone
    /\ d_cfg = [m \in Sups |-> "auto"]
    /\ SupInit
    /\ EnqInit
    /\ ScopeInit

RaceNext ==
    \/ \E t \in Enqueuers : PutNowait(t)
    \/ \E t \in Enqueuers : DroppedLoad(t)
    \/ \E t \in Enqueuers : DroppedStore(t)
    \/ SenderCheck
    \/ SenderGet
    \/ SenderGetEmpty
    \/ SenderReturn

RaceSpec == RaceInit /\ [][RaceNext]_vars

RaceTypeOK ==
    /\ e_pc \in [Enqueuers -> {"idle", "load", "store"}]
    /\ e_seen \in [Enqueuers -> 0..MaxRaceCalls]
    /\ nenq \in 0..MaxRaceCalls
    /\ dropped_count \in 0..MaxRaceCalls
    /\ Len(queue) <= queue_size

\* ================================================================ Timer

Units == {"seconds", "milliseconds"}

\* __exit__: `if self.unit == "milliseconds": duration = duration * 1000`.
Convert(duration, unit) ==
    IF unit = "milliseconds" THEN duration * 1000 ELSE duration

\* __exit__: count=self.count if self.count > 0 else None (0 is None).
CountArg(count) == IF count > 0 THEN count ELSE 0

\* What the with statement gives its caller: an exception raised by
\* __exit__ takes the place of the one in flight; else __exit__ returns
\* False and the block's exception, if any, goes on.
ScopeOutcome(block, ok) ==
    IF ~ok THEN "metric_error"
    ELSE IF block = "raised" THEN "block_error" ELSE "returned"

\* with session.timer(name, count, unit): Timer.__init__ and __enter__
\* (self.start_time = time.time()).
TimerEnter ==
    /\ tm_pc = "out"
    /\ tm_scopes < MaxScopes
    /\ tm_scopes' = tm_scopes + 1
    /\ \E unit \in Units, count \in 0..1 :
          tm' = [unit |-> unit, count |-> count, start_time |-> tm_now]
    /\ tm_pc' = "block"
    /\ tm_block' = "none"
    /\ tm_log' = <<>>
    /\ tm_seen' = "none"
    /\ UNCHANGED <<enqVars, supVars, monVars, sessionVars, tm_now>>

\* One second passes, outside a scope or while the protected block runs.
TimerTick ==
    /\ tm_pc \in {"out", "block"}
    /\ tm_pc = "out" => (tm_now = 0 /\ tm_scopes = 0)
    /\ tm_pc = "block" => tm_now - tm.start_time < MaxBlockTime
    /\ tm_now' = tm_now + 1
    /\ UNCHANGED <<enqVars, supVars, monVars, sessionVars, tm, tm_pc, tm_block,
                   tm_log, tm_seen, tm_scopes>>

\* The protected block completes or raises: __exit__ is called.
BlockEnds ==
    /\ tm_pc = "block"
    /\ \E how \in {"completed", "raised"} : tm_block' = how
    /\ tm_pc' = "exit"
    /\ UNCHANGED <<enqVars, supVars, monVars, sessionVars, tm, tm_now, tm_log,
                   tm_seen, tm_scopes>>

\* __exit__: the duration is computed and converted, session.log_timer is
\* called, and returns or raises; `return False`.
TimerExit ==
    /\ tm_pc = "exit"
    /\ \E ok \in BOOLEAN :
          /\ tm_log' = Append(tm_log,
                          [duration |-> Convert(tm_now - tm.start_time, tm.unit),
                           unit |-> tm.unit,
                           count |-> CountArg(tm.count),
                           ok |-> ok])
          /\ tm_seen' = ScopeOutcome(tm_block, ok)
    /\ tm_pc' = "out"
    /\ UNCHANGED <<enqVars, supVars, monVars, sessionVars, tm, tm_block, tm_now,
                   tm_scopes>>

\* An idle session on which the application runs timed scopes.
TimerInit ==
    /\ SessionInit
    /\ drop_on_full = TRUE
    /\ queue_size = MaxQueue
    /\ use_daemon = TRUE
    /\ MonitorNone
    /\ d_cfg = [m \in Sups |-> "auto"]
    /\ SupInit
    /\ EnqInit
    /\ ScopeInit

TimerNext ==
    \/ TimerEnter
    \/ TimerTick
    \/ BlockEnds
    \/ TimerExit

TimerSpec == TimerInit /\ [][TimerNext]_vars

TimerTypeOK ==
    /\ tm.unit \in Units
    /\ tm.count \in 0..1
    /\ tm_pc \in {"out", "block", "exit"}
    /\ tm_block \in {"none", "completed", "raised"}
    /\ tm_seen \in {"none", "returned", "block_error", "metric_error"}
    /\ tm_scopes \in 0..MaxScopes
    /\ Len(tm_log) <= 1

\* ----------------------------------------------------- derived histories

\* The logging calls made to the facade, in order (the end calls left out).
LogCalls == SelectSeq(calls, LAMBDA c : c.op # "end")

\* The end calls made to the facade.
EndCalls == SelectSeq(calls, LAMBDA c : c.op = "end")

\* The facade method the sender is inside ("none": no call in progress).
SenderOp == FacadeOp(w_item.type)

InQueue(n) == \E j \in 1..Len(queue) : queue[j].data = n
Attempted(n) == \E i \in 1..Len(LogCalls) : LogCalls[i].n = n

\* The application thread is inside a shutdown call.
InShutdownCall ==
    \/ a_pc \in {"sd_stop", "sd_alive", "sd_join", "sd_end"}
    \/ a_pc = "flush" /\ in_shutdown

\* ------------------------------------------------------------------ C1
\* C1: under the drop policy an enqueue call made while the queue holds
\* queue_size items discards the item: dropped_count grows by exactly 1, the
\* queue and sent_count are as before, and the call returns ("dropped", not
\* an exception) with the application free to go on.
C1_DropOnFull ==
    [][ (nenq' = nenq + 1 /\ drop_on_full /\ Len(queue) = queue_size)
        => /\ dropped_count' = dropped_count + 1
           /\ queue' = queue
           /\ sent_count' = sent_count
           /\ accepted' = accepted
           /\ a_pc' = "idle"
           /\ last' = "dropped" ]_vars

C1_Witness ==
    /\ drop_on_full
    /\ last = "dropped"
    /\ dropped_count = 1
    /\ Len(queue) = queue_size

\* ------------------------------------------------------------------ C2
\* C2: the logging calls made to the facade are, in order, the accepted
\* enqueue calls in enqueue order (a prefix of them while items wait),
\* whether earlier calls failed or not; the call in progress is the facade
\* method of the kind of the item it delivers.
C2_FifoDelivery ==
    /\ Len(LogCalls) <= Len(accepted)
    /\ \A i \in 1..Len(LogCalls) : LogCalls[i].n = accepted[i]
    /\ w_pc = "call" =>
          /\ w_item.data = LogCalls[Len(LogCalls)].n
          /\ SenderOp \in {"log_event", "log_metric", "update_state",
                          "log_exception"}

\* The first delivery failed and the second accepted item was attempted next.
C2_Witness ==
    /\ Len(LogCalls) = 2
    /\ failed >= 1
    /\ sent_count = 0
    /\ LogCalls[2].n = accepted[2]

\* ------------------------------------------------------------------ C3
\* C3: a facade call that raises leaves the sender alive, in its loop, with
\* nothing else changed and nothing raised to the application; the sender
\* ends only on the stop signal; and every item on the queue after a failure
\* is attempted in its turn (as long as shutdown has not stopped the sender).
C3_FailureIsolated ==
    /\ [][ (failed' = failed + 1)
           => /\ w_pc' = "check"
              /\ UNCHANGED <<queue, running, a_pc, last, dropped_count,
                             sent_count>> ]_vars
    /\ [](w_pc = "done" => ~running)
    /\ [](last # "enqueue_raised")
    /\ \A n \in 1..MaxCalls :
          (failed > 0 /\ InQueue(n)) ~> (Attempted(n) \/ ~running)

\* The first delivery failed, and the sender, still running, is delivering
\* the item enqueued behind it.
C3_Witness ==
    /\ failed = 1
    /\ sent_count = 0
    /\ w_pc = "call"
    /\ w_item.data = 2
    /\ running
    /\ last # "enqueue_raised"

\* ------------------------------------------------------------------ C4
\* C4 (as amended): an item placed on the queue is passed to the facade at
\* most once, is never lost from the queue before that, and is consumed
\* unless shutdown stops the sender first.
C4_AtMostOnce ==
    /\ [](/\ \A i, j \in 1..Len(LogCalls) :
                i # j => LogCalls[i].n # LogCalls[j].n
          /\ \A n \in 1..MaxCalls : ~(InQueue(n) /\ Attempted(n))
          /\ Len(LogCalls) + Len(queue) = Len(accepted))
    /\ \A n \in 1..MaxCalls : InQueue(n) ~> (Attempted(n) \/ ~running)

\* Every accepted item was consumed, once each.
C4_Witness ==
    /\ Len(accepted) = MaxCalls
    /\ Len(LogCalls) = MaxCalls
    /\ queue = <<>>

\* C4 as claimed: consumed exactly once, never left unconsumed - so once the
\* sender has ended nothing is left on the queue.
C4_ExactlyOnce ==
    /\ \A i, j \in 1..Len(LogCalls) : i # j => LogCalls[i].n # LogCalls[j].n
    /\ Len(LogCalls) + Len(queue) = Len(accepted)
    /\ (w_pc = "done" => queue = <<>>)

\* ------------------------------------------------------------------ C5
\* The drop-policy session has nothing left to do: the application is back
\* from its calls, the queue is empty and the sender holds no item.
Drained ==
    /\ drop_on_full
    /\ a_pc = "idle"
    /\ queue = <<>>
    /\ w_pc # "call"

ShutdownPrefixes ==
    { SubSeq(<<"flush", "stop", "join", "end">>, 1, k) : k \in 0..4 }
      \cup { <<"flush", "stop", "end">> }

\* C6: a shutdown call takes its steps in the order flush, stop signal, join,
\* end; the join is left out only when the sender had already ended; end is
\* called only with the stop signal set, and once per shutdown call.
C6_ShutdownOrder ==
    /\ sd_steps \in ShutdownPrefixes
    /\ (sd_calls > 0 /\ ~InShutdownCall) => sd_steps[Len(sd_steps)] = "end"
    /\ (a_pc = "sd_end" \/ (sd_steps # <<>> /\ sd_steps[Len(sd_steps)] = "end"))
          => ~running
    /\ sd_steps = <<"flush", "stop", "end">> => w_pc = "done"
    /\ Len(EndCalls) = IF InShutdownCall THEN sd_calls - 1 ELSE sd_calls

C6_Witness ==
    /\ sd_steps = <<"flush", "stop", "join", "end">>
    /\ sd_calls = 1
    /\ Len(EndCalls) = 1

\* ------------------------------------------------------------------ C7
\* C7 as claimed: nothing dropped, no delivery failed, the flush inside
\* shutdown saw the queue empty: when shutdown returns, sent is the number of
\* enqueue calls and dropped is 0.
C7_ShutdownSentAll ==
    [][ (a_pc = "sd_end" /\ a_pc' = "idle" /\ flush_obs = "empty"
           /\ dropped_count = 0 /\ failed = 0)
        => (sent_count' = nenq /\ dropped_count' = 0) ]_vars

\* C7 (as amended): ... and the sender has ended by the time shutdown returns
\* (the join did not give up after its 1.0 s on a facade call still running).
C7_ShutdownSentAllJoined ==
    [][ (a_pc = "sd_end" /\ a_pc' = "idle" /\ flush_obs = "empty"
           /\ dropped_count = 0 /\ failed = 0 /\ w_pc = "done")
        => (sent_count' = nenq /\ dropped_count' = 0) ]_vars

C7_Witness ==
    /\ last = "shutdown_ok"
    /\ a_pc = "idle"
    /\ sd_calls = 1
    /\ flush_obs = "empty"
    /\ dropped_count = 0
    /\ failed = 0
    /\ w_pc = "done"
    /\ nenq = MaxCalls
    /\ sent_count = nenq

\* ------------------------------------------------------------------ C8
\* A step of a flush call: its start, or its return.
FlushStarts == a_pc = "idle" /\ a_pc' = "flush"
FlushEnds == a_pc = "flush" /\ a_pc' # "flush"

\* C8: flush returns only on an empty queue or with its timeout used up; it
\* writes neither running, the counters, the queue nor the sender's position,
\* so that with no shutdown call the sender is still running, in its loop,
\* when flush has returned; and get_stats after a flush that saw the queue
\* empty, with no enqueue in between, reports queued == 0.
C8_FlushFrame ==
    [][ /\ (FlushStarts \/ FlushEnds)
            => UNCHANGED <<running, sent_count, dropped_count, queue, w_pc>>
        /\ FlushEnds => (queue = <<>> \/ timer = 0)
        /\ (last' \in {"flush_empty", "flush_timeout"} /\ sd_calls' = 0)
            => (running' /\ w_pc' # "done")
        /\ (last' = "stats" /\ flush_obs' = "empty") => stats'.queued = 0
      ]_vars

\* A flush returned on an empty queue with the sender still running, and
\* get_stats then reported an empty queue.
C8_Witness ==
    /\ last = "stats"
    /\ flush_obs = "empty"
    /\ stats.queued = 0
    /\ stats.sent >= 1
    /\ running
    /\ w_pc # "done"

\* ------------------------------------------------------------------ C9
\* C9: a second shutdown call, made after a first one stopped the sender,
\* returns without raising.
C9_SecondShutdownReturns ==
    ~(/\ sd_calls = 2
      /\ a_pc = "idle"
      /\ sd_steps = <<"flush", "stop", "end">>
      /\ w_pc = "done"
      /\ last = "shutdown_raised")

\* ----------------------------------------------------------------- C10
\* C10: under the block policy nothing is dropped: dropped_count stays 0,
\* and every enqueue call that has returned has its item on the accepted
\* list - a call that found the queue full is still waiting, its item not yet
\* placed, or has returned with it placed.
C10_BlockNeverDrops ==
    ~drop_on_full =>
        /\ dropped_count = 0
        /\ last # "dropped"
        /\ Len(accepted) = (IF a_pc = "put_wait" THEN nenq - 1 ELSE nenq)
        /\ a_pc = "put_wait" => (a_item.data = nenq /\ ~InQueue(nenq))
        /\ last = "unblocked" => accepted[Len(accepted)] = nenq

C10_Witness ==
    /\ ~drop_on_full
    /\ last = "unblocked"
    /\ a_pc = "idle"
    /\ dropped_count = 0
    /\ Len(accepted) = nenq

\* ----------------------------------------------------------------- C11
\* C11: a get_stats() call leaves the queue and both counters as they were;
\* it reports the counters' values and the queue's length at the call, a
\* length between 0 and queue_size; and no step of the program ever lowers
\* sent_count or dropped_count, so the values reported never decrease.
C11_StatsSnapshot ==
    [][ /\ sent_count' >= sent_count
        /\ dropped_count' >= dropped_count
        /\ (last' = "stats" /\ (last # "stats" \/ stats' # stats))
             => /\ queue' = queue
                /\ sent_count' = sent_count
                /\ dropped_count' = dropped_count
                /\ stats'.sent = sent_count
                /\ stats'.dropped = dropped_count
                /\ stats'.queued = Len(queue)
                /\ stats'.queued \in 0..queue_size ]_vars

\* get_stats has reported a full queue and a drop.
C11_Witness ==
    /\ last = "stats"
    /\ stats.queued = queue_size
    /\ stats.dropped = 1
    /\ stats.sent + stats.dropped + stats.queued = nenq

\* ----------------------------------------------------------------- C12
\* C12: no call of the application other than flush, shutdown, stop and a
\* block-policy enqueue waits for a background thread: under the drop
\* policy an enqueue is never left waiting for the sender, and a heartbeat()
\* call that has reached the lock never finds it held (by a checker that is
\* logging a hang event).
C12_CallerNeverWaits ==
    /\ drop_on_full => a_pc # "put_wait"
    /\ m_pc = "hb_lock" => LockFree

\* ----------------------------------------------------------------- C13
\* C13: a running monitor whose client uses no daemon logs the hang event
\* once per hang episode: since the last start() or heartbeat, the checkers
\* have begun to log at most one hang event.
C13_OneHangPerEpisode ==
    (hb_running /\ ~use_daemon) => hangs <= 1

\* ----------------------------------------------------------------- C14
\* C14: when the client uses no daemon and no heartbeat has been recorded
\* since start(), a running monitor has begun to log a hang event by the
\* time more than timeout + check_interval seconds have passed since that
\* start().
C14_HangWithinBound ==
    (/\ hb_running
     /\ ~use_daemon
     /\ ~beat
     /\ since_heartbeat > hb_timeout + check_interval) => hangs >= 1

\* ----------------------------------------------------------------- C15
\* C15: the flag a heartbeat() call finds when it holds the lock stays as it
\* is until the call tests it; a call that finds it set clears it and logs
\* the recovery event, once, and returns; a call that finds it clear
\* returns without logging a recovery event; and a recovery event is logged
\* nowhere else.
C15_RecoveryOnce ==
    [][ /\ (m_pc = "hb_req" /\ m_pc' = "hb_req") => hung_logged' = hung_logged
        /\ (m_pc = "hb_req" /\ m_pc' # "hb_req")
             => IF hung_logged
                   THEN m_pc' = "hb_rec" /\ hung_logged' = FALSE
                   ELSE /\ m_pc' = "idle"
                        /\ m_last' = "heartbeat"
                        /\ hung_logged' = FALSE
        /\ (m_pc # "hb_rec" /\ m_pc' = "hb_rec")
             => m_pc = "hb_req" /\ hung_logged
        /\ m_pc = "hb_rec" => ~hung_logged /\ ~hung_logged'
        /\ (m_pc = "hb_rec" /\ m_pc' # "hb_rec")
             => m_pc' = "idle" /\ m_last' = "heartbeat" ]_vars

\* A heartbeat found the flag set by a hang event, has cleared it and is
\* logging the recovery event.
C15_Witness ==
    /\ m_pc = "hb_rec"
    /\ ~hung_logged
    /\ hb_running
    /\ beat
    /\ since_heartbeat >= 1

\* ----------------------------------------------------------------- C16
\* C16: whenever nobody holds the monitor's lock, the hung flag is set if
\* and only if a checker has begun to log a hang event since the last
\* recorded heartbeat (or, the flag being cleared by start(), since the
\* last start()).
C16_FlagIffHangPending ==
    (hb_monitor # 0 /\ LockFree) => (hung_logged <=> hangs >= 1)

\* ----------------------------------------------------------------- C17
\* C17: while a monitor whose client uses no daemon is running and, since
\* its start(), less than timeout seconds have passed at every moment since
\* the last heartbeat (or since the start), no checker has begun to log a
\* hang event and the hung flag is clear.
C17_NoHangWhileOnTime ==
    (hb_running /\ ~use_daemon /\ ~late) => (hangs = 0 /\ ~hung_logged)

\* ----------------------------------------------------------------- C18
\* C18: a start_heartbeat_monitor or start call made while the monitor is
\* running returns the session's monitor as it is: the same instance, no
\* new checker thread, every checker where it was, and the time since the
\* last heartbeat, the hung flag, the timeout, the check interval and
\* _running unchanged.
C18_StartIdempotent ==
    [][ (/\ hb_running
         /\ m_pc = "idle"
         /\ m_last' \in {"started", "already_running"}
         /\ \/ m_last' # m_last
            \/ hb_thread' # hb_thread
            \/ hb_monitor' # hb_monitor)
        => /\ m_last' = "already_running"
           /\ hb_monitor' = hb_monitor
           /\ hb_thread' = hb_thread
           /\ c_pc' = c_pc
           /\ c_sleep' = c_sleep
           /\ since_heartbeat' = since_heartbeat
           /\ hung_logged' = hung_logged
           /\ hb_timeout' = hb_timeout
           /\ check_interval' = check_interval
           /\ hb_running' ]_vars

\* start was called on a monitor that had been running for a second or
\* more, and has left the first checker thread the only one.
C18_Witness ==
    /\ m_last = "already_running"
    /\ hb_running
    /\ hb_thread = 1
    /\ Alive(1)
    /\ since_heartbeat >= 1

\* ----------------------------------------------------------------- C19
\* C19: no heartbeat() call ends by raising, whatever the heartbeat request
\* and the recovery event do; a checker whose hang event has returned or
\* raised is back at the test of its loop with _running as it was; and a
\* running monitor always has its checker thread alive.
C19_FailureSwallowed ==
    [][ /\ m_last' # "heartbeat_raised"
        /\ \A i \in Threads :
              (c_pc[i] = "emit" /\ c_pc'[i] # "emit")
                  => c_pc'[i] = "test" /\ hb_running' = hb_running
        /\ hb_running => ThreadAlive(hb_thread) ]_vars

\* The hang event has raised and the checker, still alive, has evaluated
\* again and logs it a second time.
C19_Witness ==
    /\ hb_running
    /\ ~hung_logged
    /\ hangs = 2
    /\ hb_thread = 1
    /\ c_pc[1] = "emit"

\* ----------------------------------------------------------------- C20
\* stop() has been called and has returned, and start() has not been called
\* since.
Stopped == hb_thread # 0 /\ ~hb_running /\ m_pc # "join"

\* C20, as claimed: once stop() has returned, and until a new start(), the
\* monitor reports not running, its checker thread has exited and no
\* checker is logging a hang event.
C20_StoppedQuiet ==
    Stopped
        => /\ ~IsRunning(hb_running, hb_thread, ThreadAlive(hb_thread))
           /\ c_pc[hb_thread] = "done"
           /\ \A i \in Threads : c_pc[i] # "emit"

\* C20, amended: once stop() has returned, and until a new start(),
\* is_running() reports not running; when stop() returns, the checker thread
\* has exited unless the join ran its check_interval + 1 seconds out with
\* the thread past its sleep (waiting for the lock, logging a hang event, or
\* back at the loop test it is about to fail); and while _running is False
\* no checker begins another sleep, so a thread still alive ends with the
\* evaluation it is in.
C20_StopBounded ==
    [][ /\ Stopped
            => /\ m_last # "is_running"
               /\ ~IsRunning(hb_running, hb_thread, ThreadAlive(hb_thread))
        /\ (m_pc = "join" /\ m_pc' = "idle")
            => \/ c_pc[hb_thread] = "done"
               \/ m_timer = 0 /\ c_pc[hb_thread] \in {"lock", "emit", "test"}
        /\ ~hb_running
            => \A i \in Threads :
                  /\ c_pc'[i] = "sleep" => c_pc[i] = "sleep"
                  /\ c_pc[i] = "done" => c_pc'[i] = "done" ]_vars

\* stop() has returned with the checker thread still logging a hang event,
\* and is_running(), called after it, has reported not running.
C20_Witness ==
    /\ Stopped
    /\ m_last = "not_running"
    /\ c_pc[hb_thread] = "emit"

\* ----------------------------------------------------------------- C21
\* C21: when the monitor's client uses the daemon, no checker ever reaches
\* the evaluation: none is at the lock or logging a hang event, no hang
\* event has been begun and the hung flag is not set, however long ago the
\* last heartbeat was.
C21_DaemonNoHang ==
    use_daemon =>
        /\ \A i \in Threads : c_pc[i] \notin {"lock", "emit"}
        /\ hangs = 0
        /\ ~hung_logged

\* A running monitor of a daemon client whose checker has slept through a
\* silence longer than timeout + check_interval and sleeps again.
C21_Witness ==
    /\ use_daemon
    /\ hb_running
    /\ ~beat
    /\ since_heartbeat > hb_timeout + check_interval
    /\ c_pc[hb_thread] = "sleep"

\* ----------------------------------------------------------------- C22
\* C22: a start() call made while a supervisor is idle with its subprocess
\* alive leaves that supervisor as it was: it stays idle (the call has
\* returned), and nothing is spawned, no configuration file is written and
\* the port is not changed; and no step during which the subprocess stays
\* alive makes a Popen call, so that one spawn is seen however many start()
\* calls are made meanwhile.
C22_StartWhileAlive ==
    [][\A m \in Sups :
          /\ (d_calls' # d_calls /\ d_pc[m] = "idle" /\ process[m] = "alive")
                => /\ d_pc'[m] = "idle"
                   /\ spawns'[m] = spawns[m]
                   /\ process'[m] = "alive"
                   /\ files' = files
                   /\ daemon_port'[m] = daemon_port[m]
                   /\ config_path'[m] = config_path[m]
          /\ (process[m] = "alive" /\ process'[m] = "alive")
                => spawns'[m] = spawns[m]]_vars

\* start() has been called a second time on a supervisor whose subprocess
\* is alive, and has returned at once: one spawn after two calls.
C22_Witness ==
    \E m \in Sups :
        /\ d_last[m] = "already_running"
        /\ d_pc[m] = "idle"
        /\ process[m] = "alive"
        /\ spawns[m] = 1
        /\ d_calls = 2

C24_StartFailure ==
    \A m \in Sups :
        /\ d_last[m] = "failed_exited"
              => /\ proc_out[m] \in Outputs
                 /\ Includes(d_err[m], proc_out[m])
                 /\ ~DIsRunning(d_started[m], process[m])
        /\ d_last[m] = "failed_spawn"
              => /\ Includes(d_err[m], DaemonBinary)
                 /\ ~DIsRunning(d_started[m], process[m])

\* Both failures have happened: one supervisor's subprocess exited during
\* the grace period, the other's binary could not be executed.
C24_Witness ==
    \E m, k \in Sups :
        /\ d_last[m] = "failed_exited"
        /\ Includes(d_err[m], "bind: address already in use")
        /\ d_last[k] = "failed_spawn"

\* ----------------------------------------------------------------- C25
\* C25: an is_running() call returns true only when no start() call is in
\* progress on the supervisor (the last one has completed) and the
\* subprocess has not exited.
C25_RunningOnlyAfterStart ==
    (d_seen.sup # 0 /\ d_seen.value)
        => /\ d_pc[d_seen.sup] \notin {"write", "spawn", "grace"}
           /\ PollNone(process[d_seen.sup])

\* ----------------------------------------------------------------- C26
\* C26: two supervisors that report running have different configuration
\* paths, and the configuration file written by a supervisor whose
\* subprocess is alive is changed or removed only by a step of that
\* supervisor (its own write at a restart, its own stop).
C26_ArtifactsApart ==
    [][/\ \A m, k \in Sups :
             (m # k /\ DIsRunning(d_started[m], process[m])
                    /\ DIsRunning(d_started[k], process[k]))
                => config_path[m] # config_path[k]
       /\ \A k \in Sups : \A path \in Paths :
             (FileAt(path).owner = k /\ process[k] = "alive"
                                     /\ FileAt(path)' # FileAt(path))
                => (d_pc'[k] # d_pc[k] \/ d_last'[k] # d_last[k])]_vars

\* ----------------------------------------------------------------- C27
\* C27: a stop() that found the subprocess alive asked it to terminate and
\* then waited; it killed the subprocess exactly when the wait raised, and
\* the subprocess has exited or been killed when stop returns; a stop() that
\* found no live subprocess sent nothing; and every stop() returns normally.
C27_StopSignals ==
    \A m \in Sups :
        /\ d_pc[m] = "wait" => stop_steps[m] = <<"alive", "terminate">>
        /\ (d_pc[m] = "idle" /\ d_last[m] = "stopped")
              => \/ /\ stop_steps[m] = <<"dead">>
                    /\ ~PollNone(process[m])
                 \/ /\ stop_steps[m] = <<"alive", "terminate", "wait_returned">>
                    /\ process[m] = "exited"
                 \/ /\ stop_steps[m] = <<"alive", "terminate", "wait_raised",
                                         "kill">>
                    /\ process[m] = "killed"

\* A stop() whose wait raised has killed the subprocess, and a stop() on a
\* supervisor that was never started has returned.
C27_Witness ==
    \E m, k \in Sups :
        /\ d_last[m] = "stopped"
        /\ stop_steps[m] = <<"alive", "terminate", "wait_raised", "kill">>
        /\ d_last[k] = "stopped"
        /\ process[k] = "none"
        /\ stop_steps[k] = <<"dead">>

\* ----------------------------------------------------------------- C28
\* C28: a supervisor built with a port number keeps it: daemon_port stays
\* the configured value, the configuration files it writes hold that value,
\* and the path handed to the subprocess is the path of that port.
C28_ExplicitPortKept ==
    \A m \in Sups :
        d_cfg[m] # "auto"
            => /\ daemon_port[m] = d_cfg[m]
               /\ \A path \in Paths :
                     FileAt(path).owner = m
                        => FileAt(path).daemon_port = d_cfg[m]
               /\ proc_env[m] \in {NoPath, ConfigPath(d_cfg[m])}

\* ----------------------------------------------------------------- C29
\* C29: once Session.end has been performed, no call made on the handle
\* reaches the client: no logging call has been passed on to it, and no
\* heartbeat is inside its heartbeat request or recovery event.
C29_InertAfterEnd ==
    ended => /\ m_last \notin {"logged", "log_raised"}
             /\ m_pc \notin {"hb_req", "hb_rec"}

\* ----------------------------------------------------------------- C30
\* C30: while Session.end is in its end-session request, and when it has
\* returned or raised, the monitor's stop() has come first and is_running()
\* is false; a session without a monitor makes the request without a stop;
\* every end makes one request, and ends as that request ends.
C30_EndStopsMonitor ==
    /\ m_pc = "end_req"
          => /\ end_steps = (IF hb_monitor # 0 THEN <<"stop">> ELSE <<>>)
             /\ ~IsRunning(hb_running, hb_thread, ThreadAlive(hb_thread))
    /\ (m_pc = "idle" /\ m_last \in {"ended", "end_raised"})
          => /\ end_steps = (IF hb_monitor # 0 THEN <<"stop", "request">>
                             ELSE <<"request">>)
             /\ ~IsRunning(hb_running, hb_thread, ThreadAlive(hb_thread))

\* Session.end has raised, because its request did, on a session whose
\* monitor had been started: the stop came first and the monitor is stopped.
C30_Witness ==
    /\ m_last = "end_raised"
    /\ end_steps = <<"stop", "request">>
    /\ hb_thread # 0
    /\ ~hb_running

\* ----------------------------------------------------------------- C32
\* C32: a checker that has found the heartbeat overdue with the flag unset
\* leaves that evaluation with the flag set, whether its log_event call
\* returned or raised.
C32_FlagSetEitherWay ==
    [][\A i \in Threads :
          (c_pc[i] = "emit" /\ c_pc'[i] # "emit") => hung_logged']_vars

\* ----------------------------------------------------------------- C33
\* C33: the checker's evaluation and heartbeat()'s reset exclude each other:
\* a checker begins to log a hang only while no heartbeat call and no other
\* checker is inside the locked section, and only on a time since the last
\* heartbeat that is over the timeout with the flag unset; a heartbeat enters
\* its locked section only while no checker is logging a hang.
C33_LockExcludes ==
    [][/\ \A i \in Threads :
             (c_pc[i] # "emit" /\ c_pc'[i] = "emit")
                => /\ m_pc \notin {"hb_req", "hb_rec"}
                   /\ \A j \in Threads \ {i} : c_pc[j] # "emit"
                   /\ since_heartbeat > hb_timeout
                   /\ ~hung_logged
       /\ (m_pc = "hb_lock" /\ m_pc' \in {"hb_req", "hb_rec"})
             => \A i \in Threads : c_pc[i] # "emit"]_vars

\* A heartbeat call waits for the lock while a checker logs the hang event.
C33_Witness ==
    /\ m_pc = "hb_lock"
    /\ \E i \in Threads : c_pc[i] = "emit"

\* ----------------------------------------------------------------- C38
\* C38: at most one checker thread of the monitor is alive at any time.
C38_OneChecker ==
    Cardinality({i \in Threads : Alive(i)}) <= 1

\* ----------------------------------------------------------------- C40
\* C40: when start() has raised, because the spawn raised or because the
\* subprocess had exited at the poll, the configuration file that start()
\* wrote is not on disk and the supervisor has no live subprocess.
C40_FailedStartClean ==
    \A m \in Sups :
        (d_pc[m] = "idle" /\ d_last[m] \in {"failed_spawn", "failed_exited"})
            => /\ FileAt(config_path[m]).owner # m
               /\ ~(process[m] # "none" /\ PollNone(process[m]))

\* ----------------------------------------------------------------- C36
\* The item the sender holds while its facade call runs (0 or 1).
Held == IF w_pc = "call" THEN 1 ELSE 0

\* The facade calls made since the first end call.
CallsAfterEnd ==
    IF EndCalls = <<>> THEN <<>>
    ELSE LET first == CHOOSE i \in 1..Len(calls) :
                         /\ calls[i].op = "end"
                         /\ \A j \in 1..(i - 1) : calls[j].op # "end"
         IN SelectSeq(SubSeq(calls, first + 1, Len(calls)),
                      LAMBDA c : c.op = "deliver")

\* C36 as claimed: when shutdown calls the session's end the sender has
\* ended; no facade logging call is in progress then, and none is begun or
\* finished afterwards.
C36_EndAfterWorker ==
    /\ a_pc = "sd_end" => (w_pc = "done" /\ Held = 0)
    /\ CallsAfterEnd = <<>>

\* C36 (as amended): when shutdown calls the session's end the stop signal
\* is set, and the sender has ended or the join gave up after its 1.0 s;
\* a sender that outlives the join is in its last pass of the loop: it
\* finishes the facade call it is in, or takes one more item and delivers
\* it, and ends, so that at most one logging call follows the end call.
C36_EndAfterBoundedJoin ==
    /\ [](a_pc = "sd_end" => ~running)
    /\ [][(a_pc = "sd_join" /\ a_pc' = "sd_end")
             => (w_pc = "done" \/ timer = 0)]_vars
    /\ [][(a_pc = "sd_alive" /\ a_pc' = "sd_end") => w_pc = "done"]_vars
    /\ [](Len(CallsAfterEnd) <= 1)
    /\ [][w_pc = "done" => w_pc' = "done"]_vars

\* Shutdown has returned, its join having given up on a sender that was
\* inside a facade call; the sender has since taken no other item.
C36_Witness ==
    /\ last \in {"shutdown_ok", "shutdown_raised"}
    /\ sd_steps = <<"flush", "stop", "join", "end">>
    /\ w_pc = "call"
    /\ sd_calls = 1

\* ----------------------------------------------------------------- C37
\* C37 as claimed: when flush returns having seen the queue empty, every
\* accepted item has been delivered or has failed, and the sender holds none.
C37_FlushedAll ==
    [][(FlushEnds /\ queue = <<>>)
          => (Len(accepted) = sent_count + failed /\ Held = 0)]_vars

\* C37 (as amended): when flush returns having seen the queue empty, every
\* accepted item has been taken by the sender and passed to the facade: each
\* has been delivered or has failed, except the one, if any, whose facade
\* call is still running.
C37_FlushedOrHeld ==
    [][(FlushEnds /\ queue = <<>>)
          => /\ Len(accepted) = sent_count + failed + Held
             /\ Len(LogCalls) = Len(accepted)]_vars

\* A flush has returned on an empty queue while the sender was inside the
\* facade call of the last accepted item.
C37_Witness ==
    /\ last = "flush_empty"
    /\ w_pc = "call"
    /\ Len(accepted) = sent_count + failed + 1
    /\ w_item.data = accepted[Len(accepted)]

\* ----------------------------------------------------------------- C39
\* C39: under the block policy an enqueue call that waits for space in the
\* queue returns in the end.
C39_EnqueueReturns ==
    (~drop_on_full /\ a_pc = "put_wait") ~> (a_pc # "put_wait")

\* ----------------------------------------------------------------- C31
\* C31: when a timed scope has been left, one log_timer call was made for
\* it, and a block that raised has its own exception reach the caller.
C31_OneMetricErrorKept ==
    (tm_pc = "out" /\ tm_scopes > 0)
        => /\ Len(tm_log) = 1
           /\ tm_block = "raised" => tm_seen = "block_error"

\* ----------------------------------------------------------------- C34
\* The threads that have caught queue.Full and not yet returned.
Counting == {t \in Enqueuers : e_pc[t] # "idle"}

\* C34: with several threads enqueuing under the drop policy, dropped_count
\* is the number of items discarded by the calls that have returned, and
\* sent_count the number of facade calls that have returned without raising.
C34_CountersExact ==
    /\ dropped_count = (nenq - Len(accepted)) - Cardinality(Counting)
    /\ sent_count = Len(LogCalls) - failed - Held

\* ----------------------------------------------------------------- C35
\* C35: the enqueue calls that have returned are sent + dropped + failed
\* deliveries + the items on the queue + the item the sender holds; a failed
\* delivery changes neither counter, and sent grows by one at a time, with
\* a delivery that succeeded.
C35_Conservation ==
    /\ [](nenq - Cardinality(Counting) - (IF a_pc = "put_wait" THEN 1 ELSE 0)
            = sent_count + dropped_count + failed + Len(queue) + Held)
    /\ [][failed' = failed + 1
             => UNCHANGED <<sent_count, dropped_count>>]_vars
    /\ [][sent_count' # sent_count
             => /\ sent_count' = sent_count + 1
                /\ w_pc = "call" /\ w_pc' # "call"
                /\ failed' = failed]_vars

====
